---- MODULE Spec2Model ----
(***************************************************************************)
(* Model of the mjai-reviewer report extractor (src/src/parse.rs) and of   *)
(* the metric reducer (src/src/main.rs).                                   *)
(*                                                                         *)
(* The parsed document (scraper::Html) is a tree of nodes.  A node is      *)
(* addressed by its path, the sequence of 1-based child positions from the *)
(* Document root, which plays the part of ego_tree::NodeRef: parent,       *)
(* children and following siblings are computed from the path.             *)
(* Strings that the code inspects character by character (text nodes, the  *)
(* href of a tile) are tuples of one-character strings.                    *)
(* Floating point numbers are exact decimals [n, e] meaning n / 10^e; the  *)
(* binary rounding of f32/f64 is not modelled.                             *)
(***************************************************************************)
EXTENDS Integers, Sequences, FiniteSets, TLC

VARIABLES
    html,      \* the parsed document tree               (parse.rs:30)
    pc,        \* position of main / of the function under call
    parsed,    \* Result<Parsed> of Parser::parse        (main.rs:11)
    cursor,    \* position of the nested for loops        (main.rs:18-19)
    count,     \* main.rs:15
    correct,   \* main.rs:16
    loss,      \* main.rs:17
    stdout,    \* what println! wrote                     (main.rs:29)
    ret        \* return value of a directly called parser function

vars == <<html, pc, parsed, cursor, count, correct, loss, stdout, ret>>

(* A function over 1..n as an evaluated tuple. *)
Tuple(f) == <<>> \o f

(* F(v), with v evaluated once: the binding of a local variable. *)
Bind(v, F(_)) == CHOOSE out \in {F(b) : b \in {v}} : TRUE

None == [some |-> FALSE]
Some(v) == [some |-> TRUE, val |-> v]

----------------------------------------------------------------------------
(* anyhow::Result.  An error is its context chain, outermost context first, *)
(* root cause last.                                                         *)

Ok(v) == [ok |-> TRUE, val |-> v]
Err(msg) == [ok |-> FALSE, err |-> <<msg>>]

Context(result, msg) ==
    Bind(result, LAMBDA r : IF r.ok THEN r ELSE [ok |-> FALSE, err |-> <<msg>> \o r.err])

RootCause(r) == r.err[Len(r.err)]

first_error_index(results) ==
    LET bad == {i \in 1..Len(results) : ~results[i].ok}
    IN  IF bad = {} THEN 0 ELSE CHOOSE i \in bad : \A j \in bad : i <= j

collect_skipping_errors(results) ==
    Bind(SelectSeq(results, LAMBDA r : r.ok),
         LAMBDA good : Ok(Tuple([i \in 1..Len(good) |-> good[i].val])))

collect_last_error(results) ==
    Bind(results, LAMBDA rs :
        LET bad == {i \in 1..Len(rs) : ~rs[i].ok}
        IN  IF bad = {}
            THEN Ok(Tuple([i \in 1..Len(rs) |-> rs[i].val]))
            ELSE rs[CHOOSE i \in bad : \A j \in bad : j <= i])

(* Iterator::collect::<Result<Vec<_>>>() over results produced in order: the *)
(* first Err stops the iteration and is returned.                            *)
collect_result(results) ==
    Bind(results, LAMBDA rs :
        LET k == first_error_index(rs)
        IN  IF k = 0
            THEN Ok(Tuple([i \in 1..Len(rs) |-> rs[i].val]))
            ELSE rs[k])

----------------------------------------------------------------------------
(* The node tree.  A node value is a text node, an element or the Document  *)
(* root, with its children.  Where the code only looks downwards from a     *)
(* NodeRef (value, children) the model passes the node value.  Where it     *)
(* looks around (selectors, parent, next_siblings) the model passes a       *)
(* reference: the node with its parent reference, its position among the    *)
(* element children of the parent, and the siblings that follow it.         *)

TextNode(chars) == [type |-> "text", text |-> chars, children |-> <<>>]

(* Attributes are a set of <<name, value>> pairs. *)
NoAttrs == {}

Element(name, classes, attrs, children) ==
    [type |-> "element", name |-> name, classes |-> classes, attrs |-> attrs,
     children |-> children]

DocumentNode(children) == [type |-> "document", children |-> children]

IsElement(n) == n.type = "element"

IsElementNamed(n, name) == n.type = "element" /\ n.name = name

has_class(n, class) == class \in n.classes

HasAttr(n, name) == \E a \in n.attrs : a[1] = name

Attr(n, name) == (CHOOSE a \in n.attrs : a[1] = name)[2]

Ref(node, parent, nth, next) ==
    [node |-> node, parent |-> parent, nth |-> nth, next |-> next]

Root == Ref(html, None, 0, <<>>)

(* The references of the children i, i+1, ... of the node of ref and of     *)
(* their descendants, in document order; before of the children 1..i-1 are  *)
(* elements.                                                                *)
RECURSIVE DescendantsFrom(_, _, _)
DescendantsFrom(ref, i, before) ==
    LET kids == ref.node.children
    IN  IF i > Len(kids) THEN <<>>
        ELSE LET nth   == IF IsElement(kids[i]) THEN before + 1 ELSE before
                 child == Ref(kids[i], Some(ref), nth, SubSeq(kids, i + 1, Len(kids)))
             IN  <<child>> \o DescendantsFrom(child, 1, 0)
                           \o DescendantsFrom(ref, i + 1, nth)

(* Strict descendants of ref in document (pre-)order. *)
Descendants(ref) == DescendantsFrom(ref, 1, 0)

RECURSIVE FlattenSeqs(_)
FlattenSeqs(ss) == IF ss = <<>> THEN <<>> ELSE Head(ss) \o FlattenSeqs(Tail(ss))

take_while(s, Test(_)) ==
    LET stop == {i \in 1..Len(s) : ~Test(s[i])}
        k    == IF stop = {} THEN Len(s) + 1 ELSE CHOOSE i \in stop : \A j \in stop : i <= j
    IN  SubSeq(s, 1, k - 1)

----------------------------------------------------------------------------
(* The four selectors of Parser::new.                                       *)

(* The parent of ref is an element with that name. *)
ParentIs(ref, name) == ref.parent.some /\ IsElementNamed(ref.parent.val.node, name)

(* :nth-child(k): the k-th element among the element children of its       *)
(* parent.                                                                  *)
nth_child(ref, k) == ref.parent.some /\ ref.nth = k

round_heading_requires_id(ref) ==
    /\ IsElementNamed(ref.node, "h1")
    /\ has_class(ref.node, "kyoku-heading")
    /\ HasAttr(ref.node, "id")
    /\ ParentIs(ref, "section")
    /\ ParentIs(ref.parent.val, "body")
    /\ ParentIs(ref.parent.val.parent.val, "html")

(* "html > body > section > h1.kyoku-heading" *)
round_heading(ref) ==
    /\ IsElementNamed(ref.node, "h1")
    /\ has_class(ref.node, "kyoku-heading")
    /\ ParentIs(ref, "section")
    /\ ParentIs(ref.parent.val, "body")
    /\ ParentIs(ref.parent.val.parent.val, "html")

(* "div:nth-child(4) > details:nth-child(2)" *)
round_heading_to_turn(ref) ==
    /\ IsElementNamed(ref.node, "details")
    /\ nth_child(ref, 2)
    /\ ParentIs(ref, "div")
    /\ nth_child(ref.parent.val, 4)

(* "span.role" *)
turn_to_role(ref) == IsElementNamed(ref.node, "span") /\ has_class(ref.node, "role")

(* "details > table > tbody > tr" *)
turn_to_action(ref) ==
    /\ IsElementNamed(ref.node, "tr")
    /\ ParentIs(ref, "tbody")
    /\ ParentIs(ref.parent.val, "table")
    /\ ParentIs(ref.parent.val.parent.val, "details")

(* Html::select / ElementRef::select: the matching descendants of the scope *)
(* in document order.                                                       *)
select(scope, Matches(_)) == SelectSeq(Descendants(scope), Matches)

----------------------------------------------------------------------------
(* Strings and numbers.                                                     *)

Whitespace == {" ", "\t", "\n"}

RECURSIVE trim_start(_)
trim_start(s) ==
    IF s # <<>> /\ Head(s) \in Whitespace THEN trim_start(Tail(s)) ELSE s

RECURSIVE trim_end(_)
trim_end(s) ==
    IF s # <<>> /\ s[Len(s)] \in Whitespace
    THEN trim_end(SubSeq(s, 1, Len(s) - 1))
    ELSE s

(* str::trim *)
trim(s) == trim_end(trim_start(s))

ends_with(s, c) == s # <<>> /\ s[Len(s)] = c

DigitValue ==
    "0" :> 0 @@ "1" :> 1 @@ "2" :> 2 @@ "3" :> 3 @@ "4" :> 4 @@
    "5" :> 5 @@ "6" :> 6 @@ "7" :> 7 @@ "8" :> 8 @@ "9" :> 9

IsDigits(s) == \A i \in 1..Len(s) : s[i] \in DOMAIN DigitValue

RECURSIVE DigitsValue(_)
DigitsValue(s) ==
    IF s = <<>> THEN 0
    ELSE 10 * DigitsValue(SubSeq(s, 1, Len(s) - 1)) + DigitValue[s[Len(s)]]

RECURSIVE Pow10(_)
Pow10(k) == IF k = 0 THEN 1 ELSE 10 * Pow10(k - 1)

Abs(x) == IF x < 0 THEN -x ELSE x

(* A number n / 10^e. *)
Float(n, e) == [n |-> n, e |-> e]

MaxOf(a, b) == IF a >= b THEN a ELSE b

(* a - b *)
FloatSub(a, b) ==
    LET e == MaxOf(a.e, b.e)
    IN  Float(a.n * Pow10(e - a.e) - b.n * Pow10(e - b.e), e)

(* a + b *)
FloatAdd(a, b) ==
    LET e == MaxOf(a.e, b.e)
    IN  Float(a.n * Pow10(e - a.e) + b.n * Pow10(e - b.e), e)

(* f32::abs *)
FloatAbs(a) == Float(Abs(a.n), a.e)

(* <f32 as FromStr>::from_str on strings over digits, sign and '.': an      *)
(* optional sign, then digits with at most one '.', at least one digit.     *)
(* (Exponents, "inf" and "nan" need letters, which no modelled score text   *)
(* holds.)                                                                  *)
parse_f32(s) ==
    LET signed == s # <<>> /\ Head(s) \in {"+", "-"}
        body   == IF signed THEN Tail(s) ELSE s
        dots   == {i \in 1..Len(body) : body[i] = "."}
        dot    == IF dots = {} THEN Len(body) + 1 ELSE CHOOSE i \in dots : TRUE
        int    == SubSeq(body, 1, dot - 1)
        frac   == SubSeq(body, dot + 1, Len(body))
        sign   == IF signed /\ Head(s) = "-" THEN -1 ELSE 1
    IN  IF /\ Cardinality(dots) <= 1
           /\ IsDigits(int)
           /\ IsDigits(frac)
           /\ Len(int) + Len(frac) >= 1
        THEN Ok(Float(sign * (DigitsValue(int) * Pow10(Len(frac)) + DigitsValue(frac)),
                      Len(frac)))
        ELSE Err("invalid float literal")

----------------------------------------------------------------------------
(* Action identities.                                                       *)

Text(chars) == [kind |-> "Text", s |-> chars]
Tile(chars) == [kind |-> "Tile", s |-> chars]

action_element_eq_by_string(a, b) == a.s = b.s

(* #[derive(Eq, PartialEq)] enum ActionElement: same variant, same payload. *)
action_element_eq(a, b) == a.kind = b.kind /\ a.s = b.s

(* #[derive(Eq, PartialEq)] struct Action(Vec<ActionElement>): slice        *)
(* equality, same length and equal position by position.                    *)
action_eq(a, b) ==
    /\ Len(a) = Len(b)
    /\ \A i \in 1..Len(a) : action_element_eq(a[i], b[i])

(* parse_svg_action_element(node, element) -> Result<&str> *)
parse_svg_action_element(n) ==
    Bind(SelectSeq(n.children, IsElement), LAMBDA elems :
        IF n.name # "svg" THEN Err("element name is not svg")
        ELSE IF ~has_class(n, "tile") THEN Err("element class is not tile")
        ELSE IF elems = <<>> THEN Err("no child")
        ELSE IF elems[1].name # "use" THEN Err("element name is not use")
        ELSE IF ~has_class(elems[1], "face") THEN Err("element class is not face")
        ELSE IF ~HasAttr(elems[1], "href") THEN Err("no href attribute")
        ELSE Ok(Attr(elems[1], "href")))

(* The closure of filter_map in parse_action: Option<Result<ActionElement>>. *)
action_element_of(n) ==
    IF n.type = "text"
    THEN Bind(trim(n.text), LAMBDA text :
             IF text = <<>> THEN None ELSE Some(Ok(Text(text))))
    ELSE IF n.type = "element" /\ n.name = "svg"
    THEN Bind(Context(parse_svg_action_element(n), "parse svg action element"),
              LAMBDA r : Some(IF r.ok THEN Ok(Tile(r.val)) ELSE r))
    ELSE None

(* The filter_map(..).collect::<Result<_>>() of parse_action. *)
action_elements_of(nodes) ==
    Bind(SelectSeq(Tuple([i \in 1..Len(nodes) |-> action_element_of(nodes[i])]),
                   LAMBDA o : o.some),
         LAMBDA kept : collect_result(Tuple([i \in 1..Len(kept) |-> kept[i].val])))

parse_action_unchecked(nodes) == action_elements_of(nodes)

(* parse_action(nodes) -> Result<Action> *)
parse_action(nodes) ==
    Bind(action_elements_of(nodes), LAMBDA action_elements :
        IF ~action_elements.ok THEN action_elements
        ELSE IF action_elements.val = <<>> THEN Err("empty action")
        ELSE action_elements)

----------------------------------------------------------------------------
(* Scores.                                                                  *)

(* parse_action_score_part(node, expected_class) -> Result<&str> *)
parse_action_score_part(n, expected_class) ==
    IF ~IsElement(n) THEN Err("node is not element")
    ELSE IF n.name # "span" THEN Err("element is not span")
    ELSE IF ~has_class(n, expected_class) THEN Err("missing expected class")
    ELSE IF n.children = <<>> THEN Err("no children")
    ELSE IF Len(n.children) > 1 THEN Err("unexpected more children")
    ELSE IF n.children[1].type # "text" THEN Err("child is not text")
    ELSE Ok(n.children[1].text)

(* parse_action_score(parent) -> Result<f32> *)
parse_action_score(parent) ==
    Bind(parent.children, LAMBDA children :
        IF Len(children) < 1 THEN Err("no child")
        ELSE IF Len(children) < 2 THEN Err("no child")
        ELSE
        Bind(Context(parse_action_score_part(children[1], "int"),
                     "parse action score int"), LAMBDA int :
            IF ~int.ok THEN int
            ELSE IF ~ends_with(int.val, ".") THEN Err("integer part doesn't end with dot")
            ELSE
            Bind(Context(parse_action_score_part(children[2], "frac"),
                         "parse action score frac"), LAMBDA frac :
                IF ~frac.ok THEN frac
                ELSE Context(parse_f32(int.val \o frac.val),
                             "parse f32 from {combined:?}"))))

(* parse_action_with_scores(parent) -> Result<(Action, ActionScores)> *)
parse_action_with_scores(parent) ==
    Bind(SelectSeq(parent.children, IsElement), LAMBDA children :
        IF Len(children) < 1 THEN Err("no first child")
        ELSE IF Len(children) < 2 THEN Err("no second child")
        ELSE IF Len(children) < 3 THEN Err("no third child")
        ELSE IF Len(children) > 3 THEN Err("unexpected more children")
        ELSE
        Bind(Context(parse_action(children[1].children), "parse action"), LAMBDA action :
            IF ~action.ok THEN action
            ELSE
            Bind(Context(parse_action_score(children[2]), "parse action score"), LAMBDA q :
                IF ~q.ok THEN q
                ELSE
                Bind(Context(parse_action_score(children[3]), "parse action score"),
                     LAMBDA pi :
                        IF ~pi.ok THEN pi
                        ELSE Ok(<<action.val, [q |-> q.val, pi |-> pi.val]>>)))))

----------------------------------------------------------------------------
(* Roles, turns, rounds.                                                    *)

PlayerLabel == <<"P", "l", "a", "y", "e", "r", ":", " ">>
MortalLabel == <<"M", "o", "r", "t", "a", "l", ":", " ">>

(* parse_role(role, expected_role_name) -> Result<Action> *)
parse_role(role, expected_role_name) ==
    IF role.node.children = <<>> THEN Err("no child")
    ELSE IF role.node.children[1].type # "text" THEN Err("child is not text")
    ELSE IF role.node.children[1].text # expected_role_name
    THEN Err("unexpected role name")
    ELSE Context(parse_action(take_while(role.next,
                                         LAMBDA n : ~IsElementNamed(n, "details"))),
                 "parse action")

MatchingRows(actions, action) ==
    {i \in 1..Len(actions) : action_eq(action, actions[i][1])}

find_action_index_last(actions, action) ==
    Bind(MatchingRows(actions, action), LAMBDA m :
        IF m = {} THEN Err("action not found")
        ELSE Ok((CHOOSE i \in m : \A j \in m : j <= i) - 1))

find_action_index_or_zero(actions, action) ==
    Bind(MatchingRows(actions, action), LAMBDA m :
        IF m = {} THEN Ok(0)
        ELSE Ok((CHOOSE i \in m : \A j \in m : i <= j) - 1))

(* The closure find_action_index of parse_turn: Iterator::position, the     *)
(* 0-based index of the first row whose action equals the given one.        *)
find_action_index(actions, action) ==
    Bind(MatchingRows(actions, action), LAMBDA m :
        IF m = {} THEN Err("action not found")
        ELSE Ok((CHOOSE i \in m : \A j \in m : i <= j) - 1))

(* The rows of parse_turn: select, map, collect, context. *)
turn_actions(turn) ==
    Bind(select(turn, turn_to_action), LAMBDA rows :
        Context(collect_result(Tuple([i \in 1..Len(rows) |->
                                         parse_action_with_scores(rows[i].node)])),
                "parse action with scores"))

(* parse_turn(turn) -> Result<Turn> *)
parse_turn(turn) ==
    Bind(select(turn, turn_to_role), LAMBDA roles :
        IF Len(roles) < 1 THEN Err("missing player role in turn")
        ELSE IF Len(roles) < 2 THEN Err("missing mortal role in turn")
        ELSE IF Len(roles) > 2 THEN Err("unexpected third role in turn")
        ELSE
        Bind(Context(parse_role(roles[1], PlayerLabel), "parse role player"),
             LAMBDA player :
        IF ~player.ok THEN player
        ELSE
        Bind(Context(parse_role(roles[2], MortalLabel), "parse role mortal"),
             LAMBDA mortal :
        IF ~mortal.ok THEN mortal
        ELSE
        Bind(turn_actions(turn), LAMBDA actions :
        IF ~actions.ok THEN actions
        ELSE
        Bind(find_action_index(actions.val, player.val), LAMBDA player_index :
        IF ~player_index.ok THEN player_index
        ELSE
        Bind(find_action_index(actions.val, mortal.val), LAMBDA mortal_index :
        IF ~mortal_index.ok THEN mortal_index
        ELSE Ok([player  |-> player_index.val,
                 mortal  |-> mortal_index.val,
                 actions |-> Tuple([i \in 1..Len(actions.val) |->
                                       actions.val[i][2]])])))))))

(* parse_round(round_heading) -> Result<Round> *)
parse_round(heading) ==
    IF ~HasAttr(heading.node, "id") THEN Err("missing round heading id")
    ELSE IF ~heading.parent.some THEN Err("missing round heading parent")
    ELSE IF ~IsElement(heading.parent.val.node) THEN Err("wrap round heading parent")
    ELSE
    Bind(select(heading.parent.val, round_heading_to_turn), LAMBDA turns :
        Bind(Context(collect_result(Tuple([i \in 1..Len(turns) |->
                                              parse_turn(turns[i])])),
                     "parse turn"),
             LAMBDA rs : IF ~rs.ok THEN rs ELSE Ok([turns |-> rs.val])))

(* Parser::parse(file) -> Result<Parsed>, from the parsed document on. *)
parse ==
    Bind(select(Root, round_heading), LAMBDA headings :
        Bind(Context(collect_result(Tuple([i \in 1..Len(headings) |->
                                              parse_round(headings[i])])),
                     "parse round"),
             LAMBDA rs : IF ~rs.ok THEN rs ELSE Ok([rounds |-> rs.val])))

----------------------------------------------------------------------------
(* The metric reducer, main.rs:15-29.                                       *)

turn_loss_signed(turn) ==
    FloatSub(turn.actions[turn.mortal + 1].q, turn.actions[turn.player + 1].q)

(* (mortal.q - player.q).abs(), with the 0-based indexing into turn.actions *)
turn_loss(turn) ==
    FloatAbs(FloatSub(turn.actions[turn.mortal + 1].q, turn.actions[turn.player + 1].q))

turn_correct_inverted(turn) == IF turn.player # turn.mortal THEN 1 ELSE 0

(* (turn.player == turn.mortal) as u32 *)
turn_correct(turn) == IF turn.player = turn.mortal THEN 1 ELSE 0

(* The turns in the order the nested for loops visit them. *)
loop_order(p) == FlattenSeqs([r \in 1..Len(p.rounds) |-> p.rounds[r].turns])

Precision == 3

RoundHalfEven(a, b) ==
    LET q == a \div b
        r == a % b
    IN  IF 2 * r > b THEN q + 1
        ELSE IF 2 * r = b THEN q + (q % 2)
        ELSE q

(* {x / n:.3}: the quotient as a number of thousandths, "NaN" for 0 / 0. *)
format_ratio(x, n) ==
    IF n = 0 THEN "NaN"
    ELSE RoundHalfEven(x.n * Pow10(Precision), Pow10(x.e) * n)

----------------------------------------------------------------------------
(* Documents.                                                               *)

MaxRounds == 2
MaxTurns == 2
MaxRows == 2
MaxNodes == 2
MaxCellChildren == 3

SeqsUpTo(S, n) == UNION {[1..k -> S] : k \in 0..n}

El(name, children) == Element(name, {}, NoAttrs, children)

Span(classes, children) == Element("span", classes, NoAttrs, children)

TextA == TextNode(<<"a">>)
TextAPadded == TextNode(<<" ", "a", "\n">>)
TextM == TextNode(<<"m">>)
Blank == TextNode(<<" ", "\t">>)

UseFace == Element("use", {"face"}, {<<"href", <<"m">>>>}, <<>>)

TileM == Element("svg", {"tile"}, NoAttrs, <<Blank, UseFace>>)

BadSvgs ==
    { Element("svg", {}, NoAttrs, <<UseFace>>),
      Element("svg", {"tile"}, NoAttrs, <<Blank>>),
      Element("svg", {"tile"}, NoAttrs, <<El("g", <<>>), UseFace>>),
      Element("svg", {"tile"}, NoAttrs, <<Element("use", {}, {<<"href", <<"m">>>>}, <<>>)>>),
      Element("svg", {"tile"}, NoAttrs, <<Element("use", {"face"}, NoAttrs, <<>>)>>) }

NodePalette ==
    { TextA, TextAPadded, TextM, Blank, TileM,
      Element("svg", {}, NoAttrs, <<UseFace>>),
      El("br", <<>>), El("details", <<>>) }

ScoreCell(int, frac) ==
    El("td", <<Span({"int"}, <<TextNode(int)>>), Span({"frac"}, <<TextNode(frac)>>)>>)

Score120 == ScoreCell(<<"1", ".">>, <<"2", "0">>)
Score270 == ScoreCell(<<"2", ".">>, <<"7", "0">>)
Score050 == ScoreCell(<<"0", ".">>, <<"5", "0">>)

ScorePalette ==
    { Span({"int"}, <<TextNode(<<"1", ".">>)>>),
      Span({"int"}, <<TextNode(<<"1">>)>>),
      Span({"int"}, <<TextNode(<<"-", ".">>)>>),
      Span({"frac"}, <<TextNode(<<"2", "0">>)>>),
      Span({"frac"}, <<TextNode(<<".", "5">>)>>),
      Span({"int", "frac"}, <<>>),
      Span({"int", "frac"}, <<TextNode(<<"3", ".">>), TextNode(<<"4">>)>>),
      Span({"int", "frac"}, <<El("b", <<>>)>>),
      Span({}, <<TextNode(<<"2", "0">>)>>),
      Element("div", {"int", "frac"}, NoAttrs, <<TextNode(<<"1", ".">>)>>),
      Blank }

Row(cells) == El("tr", cells)

ScoredRow(action_nodes, q) == Row(<<El("td", action_nodes), Blank, q, Score050>>)

RowActions == { <<TileM>>, <<TextM>>, <<TextA, TileM>>, <<TileM, Blank, TextA>> }

RoleActions == RowActions

RowPalette ==
    { ScoredRow(<<TileM>>, Score120),
      ScoredRow(<<TileM>>, Score270),
      ScoredRow(<<TextM>>, Score120),
      ScoredRow(<<TextA, TileM>>, Score270),
      ScoredRow(<<TileM, Blank, TextA>>, Score120) }

RoleSpan(label) == Span({"role"}, <<TextNode(label)>>)

ActionTable(rows) == El("details", <<El("table", <<El("tbody", rows)>>)>>)

(* A turn container: each role mention in a wrapper of its own, the table   *)
(* of scored actions in a details block that follows the second mention.    *)
TurnOf(roles, rows) ==
    El("details",
       Tuple([i \in 1..Len(roles) |->
           El("div", <<RoleSpan(roles[i][1])>> \o roles[i][2]
                     \o (IF i = Len(roles) THEN <<ActionTable(rows)>> ELSE <<>>))])
       \o (IF roles = <<>> THEN <<ActionTable(rows)>> ELSE <<>>))

Turn(player_nodes, mortal_nodes, rows) ==
    TurnOf(<<<<PlayerLabel, player_nodes>>, <<MortalLabel, mortal_nodes>>>>, rows)

Entry(turn) ==
    Element("details", {"entry"}, NoAttrs,
            <<El("summary", <<>>), Blank, El("p", <<>>), El("p", <<>>),
              El("div", <<El("p", <<>>), turn>>)>>)

Heading(has_id) ==
    Element("h1", {"kyoku-heading"},
            IF has_id THEN {<<"id", <<"k">>>>} ELSE NoAttrs, <<>>)

SectionOf(headings, turns) ==
    El("section", headings \o Tuple([i \in 1..Len(turns) |-> Entry(turns[i])]))

Doc(body) == DocumentNode(<<El("html", <<El("head", <<>>), El("body", body)>>)>>)

OneTurnDoc(turn) == Doc(<<SectionOf(<<Heading(TRUE)>>, <<turn>>)>>)

GoodRows == <<ScoredRow(<<TileM>>, Score120), ScoredRow(<<TextM>>, Score270)>>

TurnSame == Turn(<<TileM>>, <<TileM>>, GoodRows)
TurnDiff == Turn(<<TextM>>, <<TileM>>, GoodRows)
TurnBadRole ==
    TurnOf(<<<<PlayerLabel, <<TileM>>>>, <<PlayerLabel, <<TileM>>>>>>,
           <<ScoredRow(<<TextA>>, ScoreCell(<<"1">>, <<"2", "0">>))>>)
TurnNotFound ==
    Turn(<<TextA>>, <<TileM>>, <<ScoredRow(<<TextM>>, Score120)>>)

TurnPalette == { TurnSame, TurnDiff, TurnNotFound }

(* Rounds over a list of turns: round i holds the turns after cut[i-1] up   *)
(* to cut[i].                                                               *)
Cuts(r, k) ==
    { c \in [1..r -> 0..k] :
        /\ \A i \in 1..r : \A j \in i..r : c[i] <= c[j]
        /\ (r > 0 => c[r] = k) }

RoundsDoc(ids, turns, cut) ==
    Doc(Tuple([i \in 1..Len(ids) |->
            SectionOf(<<Heading(ids[i])>>,
                      SubSeq(turns, (IF i = 1 THEN 0 ELSE cut[i - 1]) + 1, cut[i]))]))

(* The file holds up to MaxRounds rounds, with or without id, over up to    *)
(* MaxTurns turns.                                                          *)
RoundsInput ==
    \E ids \in SeqsUpTo(BOOLEAN, MaxRounds) :
        \E turns \in SeqsUpTo(TurnPalette, MaxTurns) :
            \E cut \in Cuts(Len(ids), Len(turns)) :
                html = RoundsDoc(ids, turns, cut)

(* Headings and turn containers that the selectors must not match, and two  *)
(* headings sharing one section.                                            *)
DecoyDocs ==
    { Doc(<<SectionOf(<<Element("h1", {}, {<<"id", <<"k">>>>}, <<>>)>>, <<TurnSame>>)>>),
      Doc(<<El("div", <<Heading(FALSE)>>), SectionOf(<<Heading(TRUE)>>, <<TurnDiff>>)>>),
      Doc(<<SectionOf(<<El("div", <<Heading(FALSE)>>)>>, <<TurnNotFound>>)>>),
      Doc(<<SectionOf(<<Heading(TRUE), Heading(TRUE)>>, <<TurnSame, TurnDiff>>)>>),
      Doc(<<SectionOf(<<Heading(TRUE), Heading(FALSE)>>, <<TurnSame>>)>>),
      Doc(<<El("section",
               <<Heading(TRUE),
                 El("details", <<El("summary", <<>>), El("p", <<>>),
                                 El("div", <<El("p", <<>>), TurnBadRole>>)>>),
                 El("details", <<El("summary", <<>>), El("p", <<>>), El("p", <<>>),
                                 El("div", <<TurnNotFound, TurnSame>>)>>)>>)>>) }

OddTurns ==
    { TurnOf(<<>>, GoodRows),
      TurnOf(<<<<PlayerLabel, <<TileM>>>>>>, GoodRows),
      TurnOf(<<<<PlayerLabel, <<TileM>>>>, <<MortalLabel, <<TileM>>>>,
               <<PlayerLabel, <<TileM>>>>>>, GoodRows),
      TurnOf(<<<<MortalLabel, <<TileM>>>>, <<PlayerLabel, <<TileM>>>>>>, GoodRows),
      El("details", <<El("div", <<Span({"role"}, <<>>), TileM>>),
                      El("div", <<Span({"role"}, <<El("b", <<>>)>>), TileM>>),
                      ActionTable(GoodRows)>>),
      El("details", <<RoleSpan(PlayerLabel), TextA, RoleSpan(MortalLabel), TileM,
                      ActionTable(<<ScoredRow(<<TextA, TileM>>, Score120),
                                    ScoredRow(<<TileM>>, Score270)>>)>>),
      Turn(<<Blank>>, <<TileM>>, GoodRows),
      Turn(<<TileM>>, <<Blank, El("br", <<>>)>>, GoodRows),
      Turn(<<TextA>>, <<TextA>>, <<Row(<<El("td", <<TextA>>), Score120>>)>>),
      Turn(<<TextA>>, <<TextA>>,
           <<Row(<<El("td", <<TextA>>), Score120, Score270, Score050>>)>>),
      Turn(<<TileM>>, <<TileM>>,
           <<GoodRows[1], ScoredRow(<<TextA>>, ScoreCell(<<"1">>, <<"2", "0">>))>>) }

(* Two turns that fail at different steps, in both orders, in one round and *)
(* in two.                                                                  *)
TwoErrorDocs ==
    { Doc(<<SectionOf(<<Heading(TRUE)>>, <<TurnBadRole, TurnNotFound>>)>>),
      Doc(<<SectionOf(<<Heading(TRUE)>>, <<TurnNotFound, TurnBadRole>>)>>),
      Doc(<<SectionOf(<<Heading(TRUE)>>, <<TurnSame, TurnBadRole>>),
            SectionOf(<<Heading(TRUE)>>, <<TurnNotFound>>)>>),
      Doc(<<SectionOf(<<Heading(TRUE)>>, <<TurnNotFound>>),
            SectionOf(<<Heading(FALSE)>>, <<TurnBadRole>>)>>),
      Doc(<<SectionOf(<<Heading(TRUE)>>, <<TurnDiff, TurnBadRole>>),
            SectionOf(<<Heading(FALSE)>>, <<TurnSame>>)>>) }

DecoyInput == html \in DecoyDocs \cup TwoErrorDocs

(* The file holds one turn: two role mentions and up to MaxRows rows, or    *)
(* one of the odd turns.                                                    *)
TurnInput ==
    \/ \E p \in RoleActions, m \in RoleActions :
            \E rows \in SeqsUpTo(RowPalette, MaxRows) :
                html = OneTurnDoc(Turn(p, m, Tuple(rows)))
    \/ \E t \in OddTurns : html = OneTurnDoc(t)

(* One sequence of nodes, both as what follows the player's role mention    *)
(* and as the action cell of the first row.                                 *)
ActionInput ==
    \E nodes \in SeqsUpTo(NodePalette, MaxNodes) \cup { <<svg>> : svg \in BadSvgs } :
        html = OneTurnDoc(Turn(nodes \o <<El("details", <<>>), TextA>>, <<TextA>>,
                               <<ScoredRow(Tuple(nodes), Score120)>>))

(* What may follow the two children the score decoder reads. *)
TrailingPalette ==
    { Blank,
      Span({"frac"}, <<TextNode(<<"2", "0">>)>>),
      El("b", <<>>) }

(* The children of a score cell: up to two nodes of any shape, and after    *)
(* two of them any further nodes.                                           *)
ScoreCellKids ==
    SeqsUpTo(ScorePalette, 2)
    \cup { Tuple(head \o tail) :
             head \in [1..2 -> ScorePalette],
             tail \in SeqsUpTo(TrailingPalette, MaxCellChildren - 2) }

(* One sequence of nodes as the children of the quality cell of the first   *)
(* row.                                                                     *)
ScoreInput ==
    \E kids \in ScoreCellKids :
        html = OneTurnDoc(Turn(<<TextA>>, <<TextA>>,
                               <<Row(<<El("td", <<TextA>>), El("td", kids), Score050>>)>>))

----------------------------------------------------------------------------
(* main                                                                     *)

Zero == Float(0, 0)

Start(at) ==
    /\ pc = at
    /\ parsed = None
    /\ cursor = 0
    /\ count = 0
    /\ correct = 0
    /\ loss = Zero
    /\ stdout = None
    /\ ret = None

Init ==
    /\ RoundsInput \/ DecoyInput \/ TurnInput \/ ActionInput \/ ScoreInput
    /\ Start("parse")

(* main.rs:10-13: parse the file; an error makes main return it. *)
Parse ==
    /\ pc = "parse"
    /\ LET r == parse
       IN  /\ parsed' = Some(Context(r, "failed to parse file"))
           /\ pc' = IF r.ok THEN "reduce" ELSE "failed"
    /\ UNCHANGED <<html, cursor, count, correct, loss, stdout, ret>>

(* main.rs:18-25: one iteration of the inner loop. *)
ReduceTurn ==
    /\ pc = "reduce"
    /\ cursor < Len(loop_order(parsed.val.val))
    /\ LET turn == loop_order(parsed.val.val)[cursor + 1]
       IN  /\ count' = count + 1
           /\ correct' = correct + turn_correct(turn)
           /\ loss' = FloatAdd(loss, turn_loss(turn))
    /\ cursor' = cursor + 1
    /\ UNCHANGED <<html, pc, parsed, stdout, ret>>

(* main.rs:27-31: the loops are over; print the statistics. *)
PrintStatistics ==
    /\ pc = "reduce"
    /\ cursor = Len(loop_order(parsed.val.val))
    /\ stdout' = Some([average_loss  |-> format_ratio(loss, count),
                       correct_ratio |-> format_ratio(Float(correct, 0), count)])
    /\ pc' = "done"
    /\ UNCHANGED <<html, parsed, cursor, count, correct, loss, ret>>

Next == Parse \/ ReduceTurn \/ PrintStatistics

Spec == Init /\ [][Next]_vars

----------------------------------------------------------------------------
(* Direct calls of the parser's functions.                                  *)

TheTurn == select(Root, round_heading_to_turn)[1]

TheRow == select(TheTurn, turn_to_action)[1]

InitTurn == TurnInput /\ Start("call")

CallParseTurn ==
    /\ pc = "call"
    /\ ret' = Some([fn |-> "parse_turn", r |-> parse_turn(TheTurn)])
    /\ pc' = "returned"
    /\ UNCHANGED <<html, parsed, cursor, count, correct, loss, stdout>>

NextTurn == CallParseTurn

SpecTurn == InitTurn /\ [][NextTurn]_vars

InitAction == ActionInput /\ Start("call")

(* parse_turn's call of parse_role for the first role mention. *)
CallParseRole ==
    /\ pc = "call"
    /\ ret' = Some([fn |-> "parse_role",
                    r  |-> parse_role(select(TheTurn, turn_to_role)[1], PlayerLabel)])
    /\ pc' = "returned"
    /\ UNCHANGED <<html, parsed, cursor, count, correct, loss, stdout>>

(* parse_action_with_scores' call of parse_action for the action cell. *)
CallParseAction ==
    /\ pc = "call"
    /\ ret' = Some([fn |-> "parse_action",
                    r  |-> parse_action(SelectSeq(TheRow.node.children, IsElement)[1].children)])
    /\ pc' = "returned"
    /\ UNCHANGED <<html, parsed, cursor, count, correct, loss, stdout>>

NextAction == CallParseRole \/ CallParseAction

SpecAction == InitAction /\ [][NextAction]_vars

InitScore == ScoreInput /\ Start("call")

(* parse_action_with_scores' call of parse_action_score for the quality     *)
(* cell.                                                                    *)
CallParseActionScore ==
    /\ pc = "call"
    /\ ret' = Some([fn |-> "parse_action_score",
                    r  |-> parse_action_score(SelectSeq(TheRow.node.children, IsElement)[2])])
    /\ pc' = "returned"
    /\ UNCHANGED <<html, parsed, cursor, count, correct, loss, stdout>>

NextScore == CallParseActionScore

SpecScore == InitScore /\ [][NextScore]_vars

----------------------------------------------------------------------------
(* What the properties below speak about.                                   *)

(* main has called parse and holds its result. *)
Parsed == parsed.some

Report == parsed.val.val

ParseError == RootCause(parsed.val)

(* A heading-class node directly under document -> body -> section. *)
IsHeadingNode(ref) ==
    /\ ref.node.type = "element" /\ ref.node.name = "h1"
    /\ "kyoku-heading" \in ref.node.classes
    /\ ref.parent.some /\ ref.parent.val.node.type = "element"
    /\ ref.parent.val.node.name = "section"
    /\ ref.parent.val.parent.some /\ ref.parent.val.parent.val.node.type = "element"
    /\ ref.parent.val.parent.val.node.name = "body"
    /\ ref.parent.val.parent.val.parent.some
    /\ ref.parent.val.parent.val.parent.val.node.type = "element"
    /\ ref.parent.val.parent.val.parent.val.node.name = "html"

HeadingNodes == select(Root, IsHeadingNode)

LacksId(ref) == \A a \in ref.node.attrs : a[1] # "id"

TurnsUnder(heading) == select(heading.parent.val, round_heading_to_turn)

Passed == [ok |-> TRUE]

AllOk(results) == \A i \in 1..Len(results) : results[i].ok

(* The checks of one turn in the order of the design: the role count, the   *)
(* player role, the reference role, each action row, the player match, the  *)
(* reference match.  A check is listed when what it checks exists.          *)
TurnChecks(turn) ==
    LET roles == select(turn, turn_to_role)
        rows  == select(turn, turn_to_action)
        role_count ==
            IF Len(roles) < 1 THEN Err("missing player role in turn")
            ELSE IF Len(roles) < 2 THEN Err("missing mortal role in turn")
            ELSE IF Len(roles) > 2 THEN Err("unexpected third role in turn")
            ELSE Passed
        role_checks ==
            IF Len(roles) = 2
            THEN <<parse_role(roles[1], PlayerLabel), parse_role(roles[2], MortalLabel)>>
            ELSE <<>>
        row_checks == Tuple([i \in 1..Len(rows) |-> parse_action_with_scores(rows[i].node)])
        scored == Tuple([i \in 1..Len(rows) |-> row_checks[i].val])
        match_checks ==
            IF Len(roles) = 2 /\ AllOk(role_checks) /\ AllOk(row_checks)
            THEN <<find_action_index(scored, role_checks[1].val),
                   find_action_index(scored, role_checks[2].val)>>
            ELSE <<>>
    IN  <<role_count>> \o role_checks \o row_checks \o match_checks

(* The checks of one round: the heading's id, then its turns in order. *)
RoundChecks(heading) ==
    IF LacksId(heading)
    THEN <<Err("missing round heading id")>>
    ELSE Bind(TurnsUnder(heading), LAMBDA turns :
            <<Passed>> \o FlattenSeqs(Tuple([j \in 1..Len(turns) |-> TurnChecks(turns[j])])))

(* Per heading in document order: whether it lacks the id, how many turns   *)
(* its section holds, and the checks of its round.                          *)
RoundFacts ==
    Bind(HeadingNodes, LAMBDA headings :
        Tuple([i \in 1..Len(headings) |->
            [lacks_id |-> LacksId(headings[i]),
             turns    |-> Len(TurnsUnder(headings[i])),
             checks   |-> RoundChecks(headings[i])]]))

(* The checks of the document, in document order. *)
ChecksOf(rounds) == FlattenSeqs(Tuple([i \in 1..Len(rounds) |-> rounds[i].checks]))

DocumentChecks == ChecksOf(RoundFacts)

FailedChecks(checks) == {i \in 1..Len(checks) : ~checks[i].ok}

FirstFailed(checks) ==
    Bind(FailedChecks(checks), LAMBDA failed :
        checks[CHOOSE i \in failed : \A j \in failed : i <= j])

AllTurns == FlattenSeqs(Tuple([r \in 1..Len(Report.rounds) |-> Report.rounds[r].turns]))

----------------------------------------------------------------------------
(* C1.  Index validity: in every Turn of every Round of a returned record,  *)
(* 0 <= player < actions.len() and 0 <= mortal < actions.len(); so no Turn  *)
(* has an empty action list.                                                *)
C1_IndexValidity ==
    (Parsed /\ parsed.val.ok) =>
        \A r \in 1..Len(Report.rounds) :
            \A t \in 1..Len(Report.rounds[r].turns) :
                LET turn == Report.rounds[r].turns[t]
                IN  /\ 0 <= turn.player /\ turn.player < Len(turn.actions)
                    /\ 0 <= turn.mortal /\ turn.mortal < Len(turn.actions)
                    /\ Len(turn.actions) >= 1

(* A record was returned that holds a turn whose player chose the last of   *)
(* several rows.                                                            *)
C1_Witness ==
    /\ Parsed /\ parsed.val.ok
    /\ \E r \in 1..Len(Report.rounds) :
        \E t \in 1..Len(Report.rounds[r].turns) :
            LET turn == Report.rounds[r].turns[t]
            IN  Len(turn.actions) >= 2 /\ turn.player = Len(turn.actions) - 1

(* C2.  No partial result: a failing check anywhere in the document makes   *)
(* parse return an error and no record, and main prints nothing; a record   *)
(* is returned only when every check of the document passes.                *)
C2_NoPartialResult ==
    Parsed =>
        /\ Bind(DocumentChecks, LAMBDA checks :
                (FailedChecks(checks) # {}) <=> ~parsed.val.ok)
        /\ ~parsed.val.ok =>
            /\ "val" \notin DOMAIN parsed.val
            /\ pc = "failed"
            /\ stdout = None /\ count = 0 /\ cursor = 0

(* The first round and its turn pass every check, a later round fails, and  *)
(* main has failed without output.                                          *)
C2_Witness ==
    /\ pc = "failed" /\ stdout = None
    /\ "val" \notin DOMAIN parsed.val
    /\ Bind(RoundFacts, LAMBDA rounds :
            /\ Len(rounds) >= 2
            /\ rounds[1].turns >= 1
            /\ AllOk(rounds[1].checks))

(* C6.  With turnCount >= 1 the reducer prints averageLoss = (sum over all  *)
(* turns of |reference quality - player quality|) / turnCount and           *)
(* correctRatio = (number of turns with equal choices) / turnCount, to      *)
(* three decimals.                                                          *)
C6_Scale(turns) ==
    LET es == {0} \cup UNION {{turns[t].actions[a].q.e : a \in 1..Len(turns[t].actions)} :
                               t \in 1..Len(turns)}
    IN  CHOOSE e \in es : \A f \in es : f <= e

RECURSIVE C6_SumLoss(_, _)
C6_SumLoss(turns, scale) ==
    IF turns = <<>> THEN 0
    ELSE LET turn == Head(turns)
             qr == turn.actions[turn.mortal + 1].q
             qp == turn.actions[turn.player + 1].q
             d  == qr.n * Pow10(scale - qr.e) - qp.n * Pow10(scale - qp.e)
         IN  (IF d < 0 THEN -d ELSE d) + C6_SumLoss(Tail(turns), scale)

C6_Equal(turns) == {t \in 1..Len(turns) : turns[t].player = turns[t].mortal}

C6_Reducer ==
    (pc = "done" /\ Len(AllTurns) >= 1) =>
        LET n == Len(AllTurns)
            scale == C6_Scale(AllTurns)
        IN  /\ stdout.some
            /\ stdout.val.average_loss =
                   RoundHalfEven(C6_SumLoss(AllTurns, scale) * 1000, Pow10(scale) * n)
            /\ stdout.val.correct_ratio =
                   RoundHalfEven(Cardinality(C6_Equal(AllTurns)) * 1000, n)

(* Two turns, one with equal choices and one with a quality difference of   *)
(* 1.5 and different choices: 0.750 and 0.500 are printed.                  *)
C6_Witness ==
    /\ pc = "done" /\ Len(AllTurns) = 2
    /\ Cardinality(C6_Equal(AllTurns)) = 1
    /\ C6_Scale(AllTurns) = 2 /\ C6_SumLoss(AllTurns, 2) = 150
    /\ stdout = Some([average_loss |-> 750, correct_ratio |-> 500])

(* C8.  When several checks of a document fail, the error reported is that  *)
(* of the first failing check in document order: rounds in heading order,   *)
(* turns in order, and in a turn role count, player role, reference role,   *)
(* rows in order, player match, reference match.                            *)
C8_FirstErrorReported ==
    Parsed =>
        Bind(DocumentChecks, LAMBDA checks :
            (FailedChecks(checks) # {}) =>
                /\ ~parsed.val.ok
                /\ ParseError = RootCause(FirstFailed(checks)))

(* Two checks with different errors fail, and the earlier one's error is    *)
(* the one reported.                                                        *)
C8_Witness ==
    /\ Parsed /\ ~parsed.val.ok
    /\ Bind(DocumentChecks, LAMBDA checks :
            \E i, j \in FailedChecks(checks) :
                /\ i < j
                /\ RootCause(checks[i]) # RootCause(checks[j])
                /\ ParseError = RootCause(checks[i]))

(* C9 as stated.  Every heading-class node yields one Round in document     *)
(* order, and a heading without id makes the extraction fail with the       *)
(* missing-id error.                                                        *)
C9_MissingIdAlwaysReported ==
    Parsed =>
        Bind(RoundFacts, LAMBDA rounds :
            /\ parsed.val.ok =>
                /\ Len(Report.rounds) = Len(rounds)
                /\ \A i \in 1..Len(rounds) :
                    Len(Report.rounds[i].turns) = rounds[i].turns
            /\ (\E i \in 1..Len(rounds) : rounds[i].lacks_id) =>
                /\ ~parsed.val.ok
                /\ ParseError = "missing round heading id")

(* C9 amended.  Every heading-class node yields one Round in document       *)
(* order; a heading without id makes the extraction fail, and with the      *)
(* missing-id error when every round before that heading passes its checks. *)
C9_MissingIdNeverSkipped ==
    Parsed =>
        Bind(RoundFacts, LAMBDA rounds :
            /\ parsed.val.ok =>
                /\ Len(Report.rounds) = Len(rounds)
                /\ \A i \in 1..Len(rounds) :
                    Len(Report.rounds[i].turns) = rounds[i].turns
            /\ \A i \in 1..Len(rounds) :
                rounds[i].lacks_id =>
                    /\ ~parsed.val.ok
                    /\ (\A j \in 1..(i - 1) : AllOk(rounds[j].checks))
                          => ParseError = "missing round heading id")

(* A well-formed round with a turn is followed by a heading without id, and *)
(* the extraction fails with the missing-id error.                          *)
C9_Witness ==
    /\ pc = "failed"
    /\ ParseError = "missing round heading id"
    /\ Bind(RoundFacts, LAMBDA rounds :
            /\ Len(rounds) >= 2
            /\ rounds[1].turns >= 1
            /\ AllOk(rounds[1].checks)
            /\ rounds[2].lacks_id)

----------------------------------------------------------------------------
(* Properties of the directly called functions.                             *)

Returned(fn) == pc = "returned" /\ ret.val.fn = fn

Result == ret.val.r

(* What parse_turn works on: the number of role mentions, the two resolved  *)
(* roles when there are two mentions, and the decoded rows.                 *)
TurnFacts ==
    Bind(TheTurn, LAMBDA turn :
        Bind(select(turn, turn_to_role), LAMBDA roles :
            Bind(select(turn, turn_to_action), LAMBDA rows :
                [roles  |-> Len(roles),
                 player |-> IF Len(roles) = 2
                            THEN parse_role(roles[1], PlayerLabel) ELSE Err("no role"),
                 mortal |-> IF Len(roles) = 2
                            THEN parse_role(roles[2], MortalLabel) ELSE Err("no role"),
                 rows   |-> Tuple([i \in 1..Len(rows) |->
                                parse_action_with_scores(rows[i].node)])])))

(* parse_turn got as far as matching: two roles and every row resolved. *)
Resolved(turn) ==
    /\ turn.roles = 2
    /\ turn.player.ok /\ turn.mortal.ok
    /\ AllOk(turn.rows)

(* The identity of the action of row i, rows counted from 0. *)
RowIdentity(turn, i) == turn.rows[i + 1].val[1]

RowIndices(turn) == 0..(Len(turn.rows) - 1)

Least(S) == CHOOSE i \in S : \A j \in S : i <= j

(* C3.  First match wins: each recorded choice is the smallest index of a   *)
(* row whose action identity equals the role's, also among identical rows;  *)
(* when no row equals a role's identity the turn fails with "action not     *)
(* found".                                                                  *)
C3_FirstMatchWins ==
    Returned("parse_turn") =>
        Bind(TurnFacts, LAMBDA turn :
            Resolved(turn) =>
                LET p == {i \in RowIndices(turn) : RowIdentity(turn, i) = turn.player.val}
                    m == {i \in RowIndices(turn) : RowIdentity(turn, i) = turn.mortal.val}
                IN  IF p # {} /\ m # {}
                    THEN /\ Result.ok
                         /\ Result.val.player = Least(p)
                         /\ Result.val.mortal = Least(m)
                    ELSE /\ ~Result.ok
                         /\ RootCause(Result) = "action not found")

(* Rows 0 and 1 carry the same action identity as the player's role, and    *)
(* index 0 is recorded.                                                     *)
C3_Witness ==
    /\ Returned("parse_turn") /\ Result.ok
    /\ Result.val.player = 0
    /\ Bind(TurnFacts, LAMBDA turn :
            /\ Resolved(turn)
            /\ Len(turn.rows) >= 2
            /\ RowIdentity(turn, 0) = turn.player.val
            /\ RowIdentity(turn, 1) = turn.player.val)

(* Same length, and position by position the same variant with the same    *)
(* string.                                                                  *)
IdentityEqual(a, b) ==
    /\ Len(a) = Len(b)
    /\ \A i \in 1..Len(a) :
        \/ a[i].kind = "Text" /\ b[i].kind = "Text" /\ a[i].s = b[i].s
        \/ a[i].kind = "Tile" /\ b[i].kind = "Tile" /\ a[i].s = b[i].s

(* C5.  The row matched to a role is identity-equal to it (same length,     *)
(* position by position Text to equal Text and Tile to equal Tile), no      *)
(* earlier row is, and a turn fails to match only when no row is            *)
(* identity-equal to one of the roles; the scores of the rows play no part. *)
C5_IdentityEquality ==
    Returned("parse_turn") =>
        Bind(TurnFacts, LAMBDA turn :
            Resolved(turn) =>
                IF Result.ok
                THEN /\ IdentityEqual(RowIdentity(turn, Result.val.player), turn.player.val)
                     /\ IdentityEqual(RowIdentity(turn, Result.val.mortal), turn.mortal.val)
                     /\ \A i \in RowIndices(turn) :
                         /\ i < Result.val.player
                              => ~IdentityEqual(RowIdentity(turn, i), turn.player.val)
                         /\ i < Result.val.mortal
                              => ~IdentityEqual(RowIdentity(turn, i), turn.mortal.val)
                ELSE \/ \A i \in RowIndices(turn) :
                          ~IdentityEqual(RowIdentity(turn, i), turn.player.val)
                     \/ \A i \in RowIndices(turn) :
                          ~IdentityEqual(RowIdentity(turn, i), turn.mortal.val))

(* The player's role is the text "m"; row 0 is the tile "m" and is passed   *)
(* over for row 1, the text "m", whatever the scores.                       *)
C5_Witness ==
    /\ Returned("parse_turn") /\ Result.ok
    /\ Result.val.player = 1
    /\ Bind(TurnFacts, LAMBDA turn :
            /\ Resolved(turn)
            /\ turn.player.val = <<Text(<<"m">>)>>
            /\ Len(turn.rows) >= 2
            /\ RowIdentity(turn, 0) = <<Tile(<<"m">>)>>)

(* C10.  In a returned Turn the two choices are equal exactly when the      *)
(* player role's and the reference role's action identities are equal, also *)
(* with identical rows; and the reducer counts exactly such a turn as       *)
(* correct.                                                                 *)
C10_EqualChoicesIffEqualIdentities ==
    (Returned("parse_turn") /\ Result.ok) =>
        Bind(TurnFacts, LAMBDA turn :
            Resolved(turn) =>
                /\ (Result.val.player = Result.val.mortal)
                      <=> (turn.player.val = turn.mortal.val)
                /\ (turn_correct(Result.val) = 1)
                      <=> (turn.player.val = turn.mortal.val))

(* Two identical rows, and two roles with the same identity: both are       *)
(* matched to row 0.                                                        *)
C10_Witness ==
    /\ Returned("parse_turn") /\ Result.ok
    /\ Result.val.player = 0 /\ Result.val.mortal = 0
    /\ Bind(TurnFacts, LAMBDA turn :
            /\ Resolved(turn)
            /\ Len(turn.rows) >= 2
            /\ RowIdentity(turn, 0) = RowIdentity(turn, 1)
            /\ turn.player.val = turn.mortal.val)

(* The nodes the resolver scans: for a role mention the siblings that       *)
(* follow it up to the first details element, for a row the children of the *)
(* action cell.                                                             *)
RoleSiblings == select(TheTurn, turn_to_role)[1].next

DetailsAt == {i \in 1..Len(RoleSiblings) :
                RoleSiblings[i].type = "element" /\ RoleSiblings[i].name = "details"}

Scanned ==
    IF ret.val.fn = "parse_role"
    THEN SubSeq(RoleSiblings, 1, Least(DetailsAt \cup {Len(RoleSiblings) + 1}) - 1)
    ELSE SelectSeq(TheRow.node.children, IsElement)[1].children

(* A text node with non-whitespace content, or an svg element. *)
Qualifies(n) ==
    \/ n.type = "text" /\ \E i \in 1..Len(n.text) : n.text[i] \notin Whitespace
    \/ n.type = "element" /\ n.name = "svg"

(* C7.  The resolver never returns an empty element sequence: when no       *)
(* scanned node is a text node with non-whitespace content or an svg        *)
(* element it fails with "empty action", for a role mention and for a row   *)
(* cell alike.                                                              *)
C7_NeverEmptyAction ==
    (Returned("parse_role") \/ Returned("parse_action")) =>
        /\ Result.ok => Result.val # <<>>
        /\ (\A i \in 1..Len(Scanned) : ~Qualifies(Scanned[i])) =>
            /\ ~Result.ok
            /\ RootCause(Result) = "empty action"

(* A role mention followed by whitespace and a non-svg element only, up to  *)
(* the details element: the call fails with "empty action".                 *)
C7_Witness ==
    /\ Returned("parse_role")
    /\ Len(Scanned) >= 2
    /\ \E i \in 1..Len(Scanned) : Scanned[i].type = "text"
    /\ \E i \in 1..Len(Scanned) : Scanned[i].type = "element"
    /\ \A i \in 1..Len(Scanned) : ~Qualifies(Scanned[i])
    /\ ~Result.ok /\ RootCause(Result) = "empty action"

ScoreCellChildren == SelectSeq(TheRow.node.children, IsElement)[2].children

(* C4.  The score decoder fails whenever the cell does not have exactly two *)
(* element children: fewer than two children, a third child after the two   *)
(* spans, or text children beside the two spans.                            *)
C4_ExactlyTwoElementChildren ==
    Returned("parse_action_score") =>
        (~(/\ Len(ScoreCellChildren) = 2
           /\ ScoreCellChildren[1].type = "element"
           /\ ScoreCellChildren[2].type = "element")
            => ~Result.ok)

====
